---- MODULE Spec2Model ----
(***************************************************************************)
(* TikTokStockVideoGenerator.generateVideo and the functions it calls:     *)
(* fetchStockData, calculateInvestmentGrowth, interpolateChartData, the    *)
(* frame loops and VideoService.createVideo / cleanup.                     *)
(*                                                                         *)
(* Numbers are JavaScript doubles in the source.  The model draws every    *)
(* amount (price, contribution, balance, dividend per share) from the      *)
(* integers, on which double arithmetic is exact, and durations from       *)
(* hundredths of a second.  A date is a day number in a calendar whose     *)
(* months all have DaysPerMonth days.                                      *)
(***************************************************************************)
EXTENDS Integers, Sequences, FiniteSets, TLC

\* ------------------------------------------------------------------ bounds
MaxMonths == 3
DaysPerMonth == 2
\* calls of calculateInvestmentGrowth with the same arguments
MaxCalls == 2

\* closing prices the provider may return; NoClose is a quote whose close is
\* null (or 0 or NaN: all falsy for the test of line 244)
NoClose == 0
Closes == {NoClose, -5, 3, 10, 20}
Investments == {-1, 0, 100}
Balances == {-1, 0, 25}

\* durations in hundredths of a second: -1 s, 0 s, 0.04 s, 0.07 s, 0.1 s
ChartDurations == {-100, 0, 4, 7}
EndingDurations == {-100, 0, 10}
\* constructor defaults, lines 286-287 and 292
DefaultConfig == [chartDuration |-> 2000, endingDuration |-> 300, chartPeriod |-> "monthly"]

VARIABLES
    quotes,                 \* result.quotes of the monthly request
    dividends,              \* result.events.dividends of the monthly request
    periodQuotes,           \* result.quotes of the daily or weekly request
    monthlyInvestment,      \* generateVideo argument
    initialBalance,         \* generateVideo argument
    config,                 \* this.config: chartDuration, endingDuration, chartPeriod
    pc,                     \* position in generateVideo
    error,                  \* the exception that left generateVideo, or "none"
    tempDir,                \* whether VideoService.tempDir exists on disk
    monthlyStockData,       \* fetchMonthlyStockData's result
    index,                  \* number of elements data.map has processed
    totalShares,            \* calculateInvestmentGrowth locals
    cashBalance,
    totalInvested,
    totalDividendsReceived,
    monthlyData,            \* calculateInvestmentGrowth's result, as built so far
    chartData,              \* the display series
    currentMonthlyData,     \* generateVideo local, line 369
    i,                      \* loop variable of the two frame loops
    frames,                 \* the arguments of each updateChart call whose frame was pushed
    frameFiles,             \* createVideo: number of frame_<n>.png files in tempDir
    duration,               \* createVideo: the duration parameter it runs with
    encoder,                \* the ffmpeg command: "idle", "running", "end", "error"
    calls,                  \* calls of calculateInvestmentGrowth that have returned
    firstResult             \* what the first of them returned

simVars == <<monthlyStockData, index, totalShares, cashBalance, totalInvested,
             totalDividendsReceived, monthlyData>>
inputVars == <<quotes, dividends, periodQuotes, monthlyInvestment, initialBalance, config>>
frameVars == <<chartData, currentMonthlyData, i, frames>>
videoVars == <<frameFiles, duration, encoder>>
callVars == <<calls, firstResult>>
vars == <<inputVars, pc, error, tempDir, simVars, frameVars, videoVars, callVars>>

\* ------------------------------------------------------------------ dates
\* toLocaleString('en-US', {month, year}) or {month, day, year}: the month
\* and, for daily and weekly labels, the day of the month (d = 0: no day).
MonthOf(t) == t \div DaysPerMonth
DayOf(t) == (t % DaysPerMonth) + 1

formatDate(t, period) ==
    IF period \in {"daily", "weekly"}
    THEN [shortFormat |-> [style |-> "short", m |-> MonthOf(t), d |-> DayOf(t)],
          longFormat  |-> [style |-> "long",  m |-> MonthOf(t), d |-> DayOf(t)]]
    ELSE [shortFormat |-> [style |-> "short", m |-> MonthOf(t), d |-> 0],
          longFormat  |-> [style |-> "long",  m |-> MonthOf(t), d |-> 0]]

getMonthKey(t) == [style |-> "short", m |-> MonthOf(t), d |-> 0]

\* new Date(label): a label without a day is the first day of its month
NewDate(label) == label.m * DaysPerMonth + (IF label.d = 0 THEN 0 ELSE label.d - 1)

\* ------------------------------------------------------------------ fetchStockData
\* lines 228-240: amounts of the dividends of one month are added up
RECURSIVE dividendMap(_)
dividendMap(events) ==
    IF events = <<>> THEN <<>>
    ELSE LET rest == dividendMap(SubSeq(events, 1, Len(events) - 1))
             ev == events[Len(events)]
             key == getMonthKey(ev.date)
             existingDividend == IF key \in DOMAIN rest THEN rest[key] ELSE 0
         IN  [k \in (DOMAIN rest) \cup {key} |->
                 IF k = key THEN existingDividend + ev.amount ELSE rest[k]]

\* dividendMap.get(shortFormat) || 0, for the monthly period only
DividendOf(map, shortFormat, period) ==
    IF period = "monthly" /\ shortFormat \in DOMAIN map THEN map[shortFormat] ELSE 0

MissingClose(qs) == \E k \in 1..Len(qs) : qs[k].close = NoClose

fetchStockData(qs, events, period) ==
    [k \in 1..Len(qs) |->
        LET f == formatDate(qs[k].date, period)
        IN  [date |-> f.shortFormat,
             formattedDate |-> f.longFormat,
             value |-> qs[k].close,
             dividend |-> DividendOf(dividendMap(events), f.shortFormat, period),
             timestamp |-> qs[k].date]]

\* ------------------------------------------------------------------ inputs
\* a variable that holds no object yet
Undefined == [undefined |-> TRUE]

\* monthly quotes: one per month, dated the first day of months 0, 1, ...
MonthlyQuotes(k, closes) ==
    { [j \in 1..k |-> [date |-> (j - 1) * DaysPerMonth, close |-> c[j]]] :
        c \in [1..k -> closes] }

RECURSIVE Concat(_, _)
Concat(f, k) == IF k = 0 THEN <<>> ELSE Concat(f, k - 1) \o f[k]

\* dividend events: none or one of 1 per share in each month, or two (1 and
\* 2 per share) in the first month and none later
DividendEvents(k) ==
    { Concat([j \in 1..k |->
                IF pay[j] THEN <<[date |-> (j - 1) * DaysPerMonth, amount |-> 1]>>
                ELSE <<>>], k) : pay \in [1..k -> BOOLEAN] }
    \cup (IF k = 0 THEN {}
          ELSE {<<[date |-> 0, amount |-> 1], [date |-> DaysPerMonth - 1, amount |-> 2]>>})

\* the daily (every day) or weekly (every second day) quotes from day first to
\* the last day of month k - 1
PeriodDays(period, first, k) ==
    LET stride == IF period = "weekly" THEN 2 ELSE 1
        n == IF k * DaysPerMonth - first <= 0 THEN 0
             ELSE (k * DaysPerMonth - first + stride - 1) \div stride
    IN  [j \in 1..n |-> first + (j - 1) * stride]

\* the responses to the daily or weekly request: none for the monthly period;
\* else a series that starts the day before, on, or the day after the first
\* monthly quote, priced as the month's quote or apart from it, or a series
\* with a quote that has no close, or no quote at all
PeriodQuotes(period, qs) ==
    IF period = "monthly" THEN {<<>>}
    ELSE LET k == Len(qs)
             monthClose(t) == IF MonthOf(t) + 1 \in 1..k THEN qs[MonthOf(t) + 1].close ELSE 10
         IN  { [j \in 1..Len(PeriodDays(period, first, k)) |->
                   LET t == PeriodDays(period, first, k)[j]
                   IN  [date |-> t, close |-> IF drift THEN 11 + t ELSE monthClose(t)]] :
                 first \in {-1, 0, 1}, drift \in BOOLEAN }
             \cup {<<>>, <<[date |-> 0, close |-> 10], [date |-> 1, close |-> NoClose]>>}

PacerCloses == {NoClose, 10, 20}
PacerDividends(k) ==
    {<<>>, [j \in 1..k |-> [date |-> (j - 1) * DaysPerMonth, amount |-> 1]]}

Configs ==
    { [chartDuration |-> c, endingDuration |-> e, chartPeriod |-> p] :
        c \in ChartDurations, e \in EndingDurations, p \in {"monthly", "daily", "weekly"} }
    \cup {DefaultConfig}

\* the state of generateVideo's locals before it runs
InitLocals ==
    /\ pc = "initialize"
    /\ error = "none"
    /\ tempDir = FALSE
    /\ monthlyStockData = <<>>
    /\ index = 0
    /\ totalShares = 0
    /\ cashBalance = 0
    /\ totalInvested = 0
    /\ totalDividendsReceived = 0
    /\ monthlyData = <<>>
    /\ chartData = <<>>
    /\ currentMonthlyData = Undefined
    /\ i = 0
    /\ frames = <<>>
    /\ frameFiles = 0
    /\ duration = 0
    /\ encoder = "idle"
    /\ calls = 0
    /\ firstResult = <<>>

\* the simulator on every bounded price series, under the default configuration
InitSim ==
    /\ \E k \in 0..MaxMonths :
          /\ quotes \in MonthlyQuotes(k, Closes)
          /\ dividends \in DividendEvents(k)
    /\ periodQuotes = <<>>
    /\ monthlyInvestment \in Investments
    /\ initialBalance \in Balances
    /\ config = DefaultConfig
    /\ InitLocals

\* generateVideo on a few price series, under every bounded configuration
Init ==
    /\ \E k \in 0..MaxMonths :
          /\ quotes \in MonthlyQuotes(k, PacerCloses)
          /\ dividends \in PacerDividends(k)
    /\ config \in Configs
    /\ periodQuotes \in PeriodQuotes(config.chartPeriod, quotes)
    /\ monthlyInvestment = 100
    /\ initialBalance = 25
    /\ InitLocals

\* ------------------------------------------------------------------ generateVideo
\* line 310: await this.videoService.initialize()
Initialize ==
    /\ pc = "initialize"
    /\ tempDir' = TRUE
    /\ pc' = "fetchMonthly"
    /\ UNCHANGED <<inputVars, callVars, error, simVars, frameVars, videoVars>>

\* faulty variant: a quote without a close is skipped and the rest is returned
FetchMonthlyPartial ==
    /\ pc = "fetchMonthly"
    /\ pc' = "calculate"
    /\ monthlyStockData' =
           fetchStockData(SelectSeq(quotes, LAMBDA q : q.close # NoClose), dividends, "monthly")
    /\ UNCHANGED error
    /\ UNCHANGED <<inputVars, callVars, tempDir, index, totalShares, cashBalance, totalInvested,
                   totalDividendsReceived, monthlyData, frameVars, videoVars>>

\* line 314: fetchMonthlyStockData; a quote without a close throws (line 245)
FetchMonthly ==
    /\ pc = "fetchMonthly"
    /\ IF MissingClose(quotes)
       THEN /\ pc' = "failed"
            /\ error' = "Error: Missing stock price data"
            /\ UNCHANGED monthlyStockData
       ELSE /\ pc' = "calculate"
            /\ monthlyStockData' = fetchStockData(quotes, dividends, "monthly")
            /\ UNCHANGED error
    /\ UNCHANGED <<inputVars, callVars, tempDir, index, totalShares, cashBalance, totalInvested,
                   totalDividendsReceived, monthlyData, frameVars, videoVars>>

\* ------------------------------------------------------------------ calculateInvestmentGrowth
\* faulty variant: one share fewer than the cash affords
SharesToBuyOneLess(cash, price) == (cash \div price) - 1

\* Math.floor(cash / price); the price is never 0 here (line 244)
SharesToBuy(cash, price) == cash \div price

\* faulty variant: the initial balance buys nothing
InitialSharesToBuyNone(balance, price) == 0

\* lines 530-540: the shares the initial balance buys at the first price
InitialSharesToBuy(balance, price) ==
    IF balance > 0 /\ SharesToBuy(balance, price) > 0 THEN SharesToBuy(balance, price) ELSE 0

\* faulty variant: the running totals are fields set when the generator is
\* constructed, and a call goes on from what the call before left in them
CalcStartKeepsTotals ==
    /\ pc = "calculate"
    /\ IF monthlyStockData = <<>>
       THEN /\ pc' = "failed"
            /\ error' = "TypeError"
            /\ UNCHANGED <<index, totalShares, cashBalance, totalInvested,
                           totalDividendsReceived, monthlyData>>
       ELSE LET balance == IF calls = 0 THEN initialBalance ELSE 0
                initialSharesToBuy ==
                    InitialSharesToBuy(balance, monthlyStockData[1].value)
                initialCost == initialSharesToBuy * monthlyStockData[1].value
            IN  /\ totalShares' = totalShares + initialSharesToBuy
                /\ cashBalance' = cashBalance + balance - initialCost
                /\ totalInvested' = totalInvested + balance
                /\ UNCHANGED totalDividendsReceived
                /\ monthlyData' = <<>>
                /\ index' = 0
                /\ pc' = "map"
                /\ UNCHANGED error
    /\ UNCHANGED <<inputVars, callVars, tempDir, monthlyStockData, frameVars, videoVars>>

\* lines 516-540; data[0].formattedDate of line 525 throws on an empty series
CalcStart ==
    /\ pc = "calculate"
    /\ IF monthlyStockData = <<>>
       THEN /\ pc' = "failed"
            /\ error' = "TypeError"
            /\ UNCHANGED <<index, totalShares, cashBalance, totalInvested,
                           totalDividendsReceived, monthlyData>>
       ELSE LET initialSharesToBuy ==
                    InitialSharesToBuy(initialBalance, monthlyStockData[1].value)
                initialCost == initialSharesToBuy * monthlyStockData[1].value
            IN  /\ totalShares' = initialSharesToBuy
                /\ cashBalance' = initialBalance - initialCost
                /\ totalInvested' = initialBalance
                /\ totalDividendsReceived' = 0
                /\ monthlyData' = <<>>
                /\ index' = 0
                /\ pc' = "map"
                /\ UNCHANGED error
    /\ UNCHANGED <<inputVars, callVars, tempDir, monthlyStockData, frameVars, videoVars>>

\* lines 552-559: the dividend paid on the shares held when it is processed
DividendAmount(dividend, shares) ==
    IF dividend > 0 /\ shares > 0 THEN dividend * shares ELSE 0

\* faulty variant: the dividend is counted as money invested
StepInvestsDividend(s, dataPoint, investment) ==
    LET cash1 == s.cashBalance + investment
        dividendAmount == DividendAmount(dataPoint.dividend, s.totalShares)
        cash2 == cash1 + dividendAmount
        sharesToBuy == SharesToBuy(cash2, dataPoint.value)
        bought == IF sharesToBuy > 0 THEN sharesToBuy ELSE 0
    IN  [totalShares |-> s.totalShares + bought,
         cashBalance |-> cash2 - bought * dataPoint.value,
         totalInvested |-> s.totalInvested + investment + dividendAmount,
         totalDividendsReceived |-> s.totalDividendsReceived + dividendAmount]

\* faulty variant: the shares bought replace the shares held
StepAssignsShares(s, dataPoint, investment) ==
    LET cash1 == s.cashBalance + investment
        dividendAmount == DividendAmount(dataPoint.dividend, s.totalShares)
        cash2 == cash1 + dividendAmount
        sharesToBuy == SharesToBuy(cash2, dataPoint.value)
        bought == IF sharesToBuy > 0 THEN sharesToBuy ELSE 0
    IN  [totalShares |-> bought,
         cashBalance |-> cash2 - bought * dataPoint.value,
         totalInvested |-> s.totalInvested + investment,
         totalDividendsReceived |-> s.totalDividendsReceived + dividendAmount]

\* faulty variant: the purchase is made before the dividend is paid
StepBuysBeforeDividend(s, dataPoint, investment) ==
    LET cash1 == s.cashBalance + investment
        sharesToBuy == SharesToBuy(cash1, dataPoint.value)
        bought == IF sharesToBuy > 0 THEN sharesToBuy ELSE 0
        shares == s.totalShares + bought
        dividendAmount == DividendAmount(dataPoint.dividend, shares)
    IN  [totalShares |-> shares,
         cashBalance |-> cash1 - bought * dataPoint.value + dividendAmount,
         totalInvested |-> s.totalInvested + investment,
         totalDividendsReceived |-> s.totalDividendsReceived + dividendAmount]

\* faulty variant: a dividend is counted as received but never reaches the cash
StepDividendNotBanked(s, dataPoint, investment) ==
    LET cash1 == s.cashBalance + investment
        invested == s.totalInvested + investment
        dividendAmount == DividendAmount(dataPoint.dividend, s.totalShares)
        sharesToBuy == SharesToBuy(cash1, dataPoint.value)
        bought == IF sharesToBuy > 0 THEN sharesToBuy ELSE 0
        cash3 == cash1 - bought * dataPoint.value
        shares == s.totalShares + bought
    IN  [totalShares |-> shares,
         cashBalance |-> cash3,
         totalInvested |-> invested,
         totalDividendsReceived |-> s.totalDividendsReceived + dividendAmount]

\* lines 546-589: the state one call of the map callback leaves, from the
\* running totals s and the data point
Step(s, dataPoint, investment) ==
    LET cash1 == s.cashBalance + investment
        invested == s.totalInvested + investment
        dividendAmount == DividendAmount(dataPoint.dividend, s.totalShares)
        cash2 == cash1 + dividendAmount
        sharesToBuy == SharesToBuy(cash2, dataPoint.value)
        bought == IF sharesToBuy > 0 THEN sharesToBuy ELSE 0
        cash3 == cash2 - bought * dataPoint.value
        shares == s.totalShares + bought
    IN  [totalShares |-> shares,
         cashBalance |-> cash3,
         totalInvested |-> invested,
         totalDividendsReceived |-> s.totalDividendsReceived + dividendAmount]

\* faulty variant: the portfolio value leaves the price out
MonthlyDataPointUnpriced(s, dataPoint) ==
    [date |-> dataPoint.date,
     formattedDate |-> dataPoint.formattedDate,
     stockPrice |-> dataPoint.value,
     shares |-> s.totalShares,
     totalInvested |-> s.totalInvested,
     portfolioValue |-> s.totalShares + s.cashBalance,
     totalDividends |-> s.totalDividendsReceived,
     cashBalance |-> s.cashBalance]

\* lines 580-589: the MonthlyDataPoint the callback returns
MonthlyDataPoint(s, dataPoint) ==
    [date |-> dataPoint.date,
     formattedDate |-> dataPoint.formattedDate,
     stockPrice |-> dataPoint.value,
     shares |-> s.totalShares,
     totalInvested |-> s.totalInvested,
     portfolioValue |-> (dataPoint.value * s.totalShares) + s.cashBalance,
     totalDividends |-> s.totalDividendsReceived,
     cashBalance |-> s.cashBalance]

\* line 542: one call of the callback of data.map
CalcPeriod ==
    /\ pc = "map"
    /\ index < Len(monthlyStockData)
    /\ LET dataPoint == monthlyStockData[index + 1]
           s == Step([totalShares |-> totalShares, cashBalance |-> cashBalance,
                      totalInvested |-> totalInvested,
                      totalDividendsReceived |-> totalDividendsReceived],
                     dataPoint, monthlyInvestment)
       IN  /\ totalShares' = s.totalShares
           /\ cashBalance' = s.cashBalance
           /\ totalInvested' = s.totalInvested
           /\ totalDividendsReceived' = s.totalDividendsReceived
           /\ monthlyData' = Append(monthlyData, MonthlyDataPoint(s, dataPoint))
    /\ index' = index + 1
    /\ pc' = IF index + 1 = Len(monthlyStockData) THEN "chart" ELSE "map"
    /\ UNCHANGED <<inputVars, callVars, error, tempDir, monthlyStockData, frameVars, videoVars>>

\* line 319 once more: calculateInvestmentGrowth is called again on the same
\* generator with the arguments of the call that has just returned
CallAgain ==
    /\ pc = "chart"
    /\ calls + 1 < MaxCalls
    /\ calls' = calls + 1
    /\ firstResult' = IF calls = 0 THEN monthlyData ELSE firstResult
    /\ pc' = "calculate"
    /\ UNCHANGED <<inputVars, error, tempDir, simVars, frameVars, videoVars>>

\* ------------------------------------------------------------------ interpolateChartData
\* lines 471-479 (and 389-396): the scan for the last monthly point dated at or
\* before the date; found is what the scan's variable holds before the scan
RECURSIVE ScanMonthly(_, _, _, _)
ScanMonthly(monthly, date, j, found) ==
    IF j > Len(monthly) THEN found
    ELSE IF NewDate(monthly[j].formattedDate) <= date
         THEN ScanMonthly(monthly, date, j + 1, j)
         ELSE found

\* line 471: the scan starts from index 0 (1 here)
MatchingMonthlyIndex(monthly, periodPoint) ==
    ScanMonthly(monthly, NewDate(periodPoint.formattedDate), 1, 1)

\* faulty variant: the money invested is taken from the revalued portfolio
InterpolatePointInvestsValue(periodPoint, prevMonthly) ==
    [date |-> periodPoint.date,
     formattedDate |-> periodPoint.formattedDate,
     portfolioValue |-> prevMonthly.shares * periodPoint.value + prevMonthly.cashBalance,
     totalInvested |-> prevMonthly.shares * periodPoint.value + prevMonthly.cashBalance,
     stockPrice |-> periodPoint.value]

\* faulty variant: the whole portfolio, cash included, is scaled by priceRatio
InterpolatePointScalesValue(periodPoint, prevMonthly) ==
    [date |-> periodPoint.date,
     formattedDate |-> periodPoint.formattedDate,
     portfolioValue |->
         (prevMonthly.portfolioValue * periodPoint.value) \div prevMonthly.stockPrice,
     totalInvested |-> prevMonthly.totalInvested,
     stockPrice |-> periodPoint.value]

\* lines 483-512: the chart point of one daily or weekly point
InterpolatePoint(periodPoint, prevMonthly) ==
    IF periodPoint.date = prevMonthly.date
    THEN [date |-> periodPoint.date,
          formattedDate |-> periodPoint.formattedDate,
          portfolioValue |-> prevMonthly.portfolioValue,
          totalInvested |-> prevMonthly.totalInvested,
          stockPrice |-> periodPoint.value]
    ELSE [date |-> periodPoint.date,
          formattedDate |-> periodPoint.formattedDate,
          portfolioValue |-> prevMonthly.shares * periodPoint.value + prevMonthly.cashBalance,
          totalInvested |-> prevMonthly.totalInvested,
          stockPrice |-> periodPoint.value]

interpolateChartData(periodStockData, monthly) ==
    [k \in 1..Len(periodStockData) |->
        InterpolatePoint(periodStockData[k],
                         monthly[MatchingMonthlyIndex(monthly, periodStockData[k])])]

\* lines 326-334: the monthly data used directly
MonthlyChartData(monthly) ==
    [k \in 1..Len(monthly) |->
        [date |-> monthly[k].date,
         formattedDate |-> monthly[k].formattedDate,
         portfolioValue |-> monthly[k].portfolioValue,
         totalInvested |-> monthly[k].totalInvested,
         shares |-> monthly[k].shares,
         totalDividends |-> monthly[k].totalDividends,
         stockPrice |-> monthly[k].stockPrice]]

\* lines 322-369: the display series; the daily or weekly request throws on a
\* quote without a close
BuildChartData ==
    /\ pc = "chart"
    /\ IF config.chartPeriod # "monthly" /\ MissingClose(periodQuotes)
       THEN /\ pc' = "failed"
            /\ error' = "Error: Missing stock price data"
            /\ UNCHANGED <<chartData, currentMonthlyData>>
       ELSE /\ chartData' =
                 IF config.chartPeriod = "monthly"
                 THEN MonthlyChartData(monthlyData)
                 ELSE interpolateChartData(
                          fetchStockData(periodQuotes, dividends, config.chartPeriod),
                          monthlyData)
            /\ currentMonthlyData' = monthlyData[1]
            /\ pc' = "frames"
            /\ UNCHANGED error
    /\ i' = 0
    /\ UNCHANGED <<inputVars, callVars, tempDir, simVars, frames, videoVars>>

\* lines 464-514 called on their own: interpolateChartData applied to the
\* monthly states and to a price series (a StockDataPoint[]) labelled for
\* any of the three periods
InterpolateCall ==
    /\ pc = "chart"
    /\ IF MissingClose(periodQuotes)
       THEN /\ pc' = "failed"
            /\ error' = "Error: Missing stock price data"
            /\ UNCHANGED chartData
       ELSE /\ \E period \in {"daily", "weekly", "monthly"} :
                 chartData' = interpolateChartData(
                                  fetchStockData(periodQuotes, dividends, period),
                                  monthlyData)
            /\ pc' = "frames"
            /\ UNCHANGED error
    /\ UNCHANGED <<inputVars, callVars, tempDir, simVars, currentMonthlyData, i, frames, videoVars>>

\* ------------------------------------------------------------------ the frame loops
\* line 372
fps == 30

\* Math.floor(seconds * fps), the duration given in hundredths of a second
FrameBudget(hundredths) == (hundredths * fps) \div 100

chartFrames == FrameBudget(config.chartDuration)
endingFrames == FrameBudget(config.endingDuration)

\* n / 0 for n > 0: larger than every index
Infinity == 1000000

Max(a, b) == IF a >= b THEN a ELSE b

\* faulty variant: the step is rounded up, so that the frames fit the budget
FrameStepCeil(n, budget) ==
    IF budget = 0 THEN Infinity ELSE Max(1, (n + budget - 1) \div budget)

\* faulty variant: every point of the series gets a frame
FrameStepOne(n, budget) == 1

\* line 377: Math.max(1, Math.floor(n / budget)).  For n = 0 and budget = 0
\* the source computes NaN, and the loop of line 380 is not entered.
FrameStep(n, budget) == IF budget = 0 THEN Infinity ELSE Max(1, n \div budget)

frameStep == FrameStep(Len(chartData), chartFrames)

\* lines 385-399: the monthly point whose shares and dividends frame p shows
CurrentMonthly(p, current) ==
    IF config.chartPeriod # "monthly"
    THEN LET j == ScanMonthly(monthlyData, NewDate(chartData[p].formattedDate), 1, 0)
         IN  IF j = 0 THEN current ELSE monthlyData[j]
    ELSE monthlyData[p]

\* faulty variant: the frame shows a window of the last two points
GrowthFrameArgsWindow(p, current) ==
    LET w == IF p < 2 THEN p ELSE 2
    IN  [labels |-> [k \in 1..w |-> chartData[p - w + k].date],
         values |-> [k \in 1..w |-> chartData[p - w + k].portfolioValue],
         totalInput |-> [k \in 1..w |-> chartData[p - w + k].totalInvested],
         shares |-> current.shares,
         totalDividends |-> current.totalDividends,
         formattedDate |-> chartData[p].formattedDate,
         stockPrice |-> chartData[p].stockPrice,
         isFinal |-> FALSE]

\* lines 401-411: the arguments of updateChart for the growth frame of point p
GrowthFrameArgs(p, current) ==
    [labels |-> [k \in 1..p |-> chartData[k].date],
     values |-> [k \in 1..p |-> chartData[k].portfolioValue],
     totalInput |-> [k \in 1..p |-> chartData[k].totalInvested],
     shares |-> current.shares,
     totalDividends |-> current.totalDividends,
     formattedDate |-> chartData[p].formattedDate,
     stockPrice |-> chartData[p].stockPrice,
     isFinal |-> FALSE]

\* lines 380-420: one iteration of the loop of regular frames
GrowthFrame ==
    /\ pc = "frames"
    /\ i < Len(chartData)
    /\ LET current == CurrentMonthly(i + 1, currentMonthlyData)
       IN  /\ currentMonthlyData' = current
           /\ frames' = Append(frames, GrowthFrameArgs(i + 1, current))
    /\ i' = i + frameStep
    /\ UNCHANGED <<inputVars, callVars, pc, error, tempDir, simVars, chartData, videoVars>>

\* line 380: the loop condition fails
GrowthDone ==
    /\ pc = "frames"
    /\ ~(i < Len(chartData))
    /\ pc' = "ending"
    /\ i' = 0
    /\ UNCHANGED <<inputVars, callVars, error, tempDir, simVars, chartData, currentMonthlyData,
                   frames, videoVars>>

\* faulty variant: a final frame shows the monthly point of the last regular frame
EndingFrameArgsCurrent ==
    LET lastPoint == chartData[Len(chartData)]
    IN  [labels |-> [k \in 1..Len(chartData) |-> chartData[k].date],
         values |-> [k \in 1..Len(chartData) |-> chartData[k].portfolioValue],
         totalInput |-> [k \in 1..Len(chartData) |-> chartData[k].totalInvested],
         shares |-> currentMonthlyData.shares,
         totalDividends |-> currentMonthlyData.totalDividends,
         formattedDate |-> lastPoint.formattedDate,
         stockPrice |-> lastPoint.stockPrice,
         isFinal |-> TRUE]

\* lines 431-441: the arguments of updateChart for a final frame
EndingFrameArgs ==
    LET lastPoint == chartData[Len(chartData)]
        lastMonthlyPoint == monthlyData[Len(monthlyData)]
    IN  [labels |-> [k \in 1..Len(chartData) |-> chartData[k].date],
         values |-> [k \in 1..Len(chartData) |-> chartData[k].portfolioValue],
         totalInput |-> [k \in 1..Len(chartData) |-> chartData[k].totalInvested],
         shares |-> lastMonthlyPoint.shares,
         totalDividends |-> lastMonthlyPoint.totalDividends,
         formattedDate |-> lastPoint.formattedDate,
         stockPrice |-> lastPoint.stockPrice,
         isFinal |-> TRUE]

\* lines 430-445: one iteration of the loop of final frames; lastPoint is
\* undefined when the display series is empty, and line 438 throws
EndingFrame ==
    /\ pc = "ending"
    /\ i < endingFrames
    /\ IF chartData = <<>>
       THEN /\ pc' = "failed"
            /\ error' = "TypeError"
            /\ UNCHANGED <<frames, i>>
       ELSE /\ frames' = Append(frames, EndingFrameArgs)
            /\ i' = i + 1
            /\ UNCHANGED <<pc, error>>
    /\ UNCHANGED <<inputVars, callVars, tempDir, simVars, chartData, currentMonthlyData, videoVars>>

\* line 430: the loop condition fails
EndingDone ==
    /\ pc = "ending"
    /\ ~(i < endingFrames)
    /\ pc' = "createVideo"
    /\ UNCHANGED <<inputVars, callVars, error, tempDir, simVars, frameVars, videoVars>>

\* ------------------------------------------------------------------ VideoService
\* videoService.ts line 20: the default of createVideo's duration parameter
DefaultDuration == 22

\* line 455: the duration argument generateVideo passes: none
DurationArgument == Undefined

\* videoService.ts lines 16-62: the frames are written and ffmpeg is started
CreateVideo ==
    /\ pc = "createVideo"
    /\ frameFiles' = Len(frames)
    /\ duration' = IF DurationArgument = Undefined THEN DefaultDuration ELSE DurationArgument
    /\ encoder' = "running"
    /\ pc' = "encoding"
    /\ UNCHANGED <<inputVars, callVars, error, tempDir, simVars, frameVars>>

\* videoService.ts lines 54-58: ffmpeg ends; the frame files are unlinked
EncoderEnd ==
    /\ pc = "encoding"
    /\ encoder = "running"
    /\ encoder' = "end"
    /\ frameFiles' = 0
    /\ pc' = "cleanup"
    /\ UNCHANGED <<inputVars, callVars, error, tempDir, simVars, frameVars, duration>>

\* faulty variant: the rejection leaves generateVideo with no finally block run
EncoderErrorNoFinally ==
    /\ pc = "encoding"
    /\ encoder = "running"
    /\ encoder' = "error"
    /\ error' = "ffmpeg error"
    /\ pc' = "failed"
    /\ UNCHANGED <<inputVars, callVars, tempDir, simVars, frameVars, frameFiles, duration>>

\* videoService.ts lines 59-61: ffmpeg fails; the promise is rejected
EncoderError ==
    /\ pc = "encoding"
    /\ encoder = "running"
    /\ encoder' = "error"
    /\ error' = "ffmpeg error"
    /\ pc' = "cleanup"
    /\ UNCHANGED <<inputVars, callVars, tempDir, simVars, frameVars, frameFiles, duration>>

\* lines 457-461 and videoService.ts lines 66-68: the finally block
Cleanup ==
    /\ pc = "cleanup"
    /\ tempDir' = FALSE
    /\ frameFiles' = 0
    /\ pc' = IF error = "none" THEN "done" ELSE "failed"
    /\ UNCHANGED <<inputVars, callVars, error, simVars, frameVars, duration, encoder>>

\* ------------------------------------------------------------------ the simulator's contract
\* the simulator's input as section 4.1 requires it: a non-empty series of
\* positive prices, a contribution and an initial balance that are not negative
ValidSimulatorInput ==
    /\ quotes # <<>>
    /\ \A k \in 1..Len(quotes) : quotes[k].close > 0
    /\ monthlyInvestment >= 0
    /\ initialBalance >= 0

C2_TotalContributed ==
    \A k \in 1..Len(monthlyData) :
        monthlyData[k].totalInvested = initialBalance + monthlyInvestment * k

\* the last of three periods, with dividends received and shares bought
C2_Witness ==
    /\ pc = "chart"
    /\ Len(monthlyData) = 3
    /\ initialBalance > 0
    /\ monthlyInvestment > 0
    /\ monthlyData[3].totalDividends > 0
    /\ monthlyData[3].shares > 0

\* C3: on valid input shares, totalInvested and totalDividends never decrease
\* from one emitted state to the next.
C3_Monotonic ==
    ValidSimulatorInput =>
        \A k \in 1..(Len(monthlyData) - 1) :
            /\ monthlyData[k].shares <= monthlyData[k + 1].shares
            /\ monthlyData[k].totalInvested <= monthlyData[k + 1].totalInvested
            /\ monthlyData[k].totalDividends <= monthlyData[k + 1].totalDividends

\* three states in which all three totals grew, and the price rose so that
\* fewer shares were bought in the last period than in the one before
C3_Witness ==
    /\ ValidSimulatorInput
    /\ Len(monthlyData) = 3
    /\ monthlyData[2].shares < monthlyData[3].shares
    /\ monthlyData[3].shares - monthlyData[2].shares < monthlyData[2].shares - monthlyData[1].shares
    /\ monthlyData[2].totalInvested < monthlyData[3].totalInvested
    /\ monthlyData[2].totalDividends < monthlyData[3].totalDividends

\* C4: every call of the callback, the first included, adds the contribution,
\* then pays the dividend on the shares held before the call's purchase (none
\* on 0 shares), then buys with the cash that includes both.
C4_ContributionDividendPurchase ==
    [][pc = "map" =>
        LET dataPoint == monthlyStockData[index + 1]
            payout == IF dataPoint.dividend > 0 THEN dataPoint.dividend * totalShares ELSE 0
            cash == cashBalance + monthlyInvestment + payout
            bought == Max(0, cash \div dataPoint.value)
        IN  /\ totalInvested' = totalInvested + monthlyInvestment
            /\ totalDividendsReceived' = totalDividendsReceived + payout
            /\ totalShares' = totalShares + bought
            /\ cashBalance' = cash - bought * dataPoint.value
            /\ (totalShares = 0 => totalDividendsReceived' = totalDividendsReceived)]_vars

\* the first period, entered with no share: a dividend is declared, shares are
\* bought, and no dividend is received
C4_Witness ==
    /\ index = 1
    /\ Len(monthlyData) = 1
    /\ initialBalance = 0
    /\ monthlyStockData[1].dividend > 0
    /\ monthlyData[1].shares > 0
    /\ monthlyData[1].totalDividends = 0

\* C5: on valid input with a positive initial balance the seed step buys
\* floor(initialBalance / price[0]) shares and takes their cost from the cash
\* before the first contribution, and emits no entry; the finished series has
\* one entry per input period, in order; the seeded shares earn the first
\* period's dividend.
C5_SeedStep ==
    (ValidSimulatorInput /\ initialBalance > 0) =>
        LET price0 == quotes[1].close
            seed == initialBalance \div price0
        IN  /\ (pc = "map" /\ index = 0) =>
                  /\ monthlyData = <<>>
                  /\ totalShares = seed
                  /\ cashBalance = initialBalance - seed * price0
                  /\ totalInvested = initialBalance
            /\ pc = "chart" =>
                  /\ Len(monthlyData) = Len(quotes)
                  /\ \A k \in 1..Len(quotes) :
                        /\ monthlyData[k].date = getMonthKey(quotes[k].date)
                        /\ monthlyData[k].stockPrice = quotes[k].close
            /\ Len(monthlyData) >= 1 =>
                  monthlyData[1].totalDividends = monthlyStockData[1].dividend * seed

\* a finished run of three periods whose seeded shares earned a dividend in
\* the first period
C5_Witness ==
    /\ ValidSimulatorInput
    /\ pc = "chart"
    /\ initialBalance > 0
    /\ Len(monthlyData) = 3
    /\ monthlyData[1].totalDividends > 0

\* prices 10, 10, 20, no dividend, contribution 100, initial balance 0
C6_Scenario ==
    /\ Len(quotes) = 3
    /\ quotes[1].close = 10 /\ quotes[2].close = 10 /\ quotes[3].close = 20
    /\ dividends = <<>>
    /\ monthlyInvestment = 100
    /\ initialBalance = 0

\* C6: in that scenario the states hold 10, 20, 25 shares and no cash, and the
\* last has portfolioValue 500 and totalInvested 300.
C6_ConcreteScenario ==
    (C6_Scenario /\ pc = "chart") =>
        /\ Len(monthlyData) = 3
        /\ monthlyData[1].shares = 10 /\ monthlyData[1].cashBalance = 0
        /\ monthlyData[2].shares = 20 /\ monthlyData[2].cashBalance = 0
        /\ monthlyData[3].shares = 25 /\ monthlyData[3].cashBalance = 0
        /\ monthlyData[3].portfolioValue = 500
        /\ monthlyData[3].portfolioValue =
              monthlyData[3].shares * monthlyData[3].stockPrice + monthlyData[3].cashBalance
        /\ monthlyData[3].totalInvested = 300

C6_Witness == C6_Scenario /\ pc = "chart" /\ Len(monthlyData) = 3

\* C7: when the series is empty, a price is <= 0, or the contribution or the
\* initial balance is negative, no state is emitted and the run does not go on
\* to the display series.
C7_InvalidInputRejected ==
    ~ValidSimulatorInput => (monthlyData = <<>> /\ pc # "chart")

\* ------------------------------------------------------------------ the frame loops' contract
\* the frame loops' input as section 4.3 requires it: a display series that is
\* not empty and durations that are not negative (the frame rate is fixed at 30)
ValidPacerInput ==
    /\ Len(chartData) >= 1
    /\ config.chartDuration >= 0
    /\ config.endingDuration >= 0

\* the frame loops have been reached
PacerStarted == pc \in {"frames", "ending", "createVideo", "encoding", "cleanup", "done"}

FinalFrames == {a \in 1..Len(frames) : frames[a].isFinal}

\* C8 as claimed: on valid input the frames handed to createVideo number
\* floor(chartDuration * fps) + floor(endingDuration * fps); 690 under the
\* default configuration whatever the length of the display series.
C8_TotalIsBudget ==
    (pc = "createVideo" /\ ValidPacerInput) =>
        /\ Len(frames) = chartFrames + endingFrames
        /\ (config.chartDuration = 2000 /\ config.endingDuration = 300) => Len(frames) = 690

\* C8 as amended: on valid input the frames handed to createVideo number
\* ceil(N / step) regular frames, step = max(1, floor(N / chartFrames)) (one
\* regular frame when chartFrames = 0), plus exactly endingFrames final
\* frames; N + 90 under the default configuration for the series of the model.
C8_TotalIsGrowthPlusEnding ==
    (pc = "createVideo" /\ ValidPacerInput) =>
        LET N == Len(chartData)
            step == IF N \div chartFrames >= 1 THEN N \div chartFrames ELSE 1
            growth == IF chartFrames = 0 THEN 1 ELSE (N + step - 1) \div step
        IN  /\ Len(frames) = growth + endingFrames
            /\ Cardinality(FinalFrames) = endingFrames
            /\ (config.chartDuration = 2000 /\ config.endingDuration = 300) =>
                  Len(frames) = N + 90

\* a series that is stepped through two or three points at a time, and whose
\* frames are not as many as the budget
C8_Witness ==
    /\ pc = "createVideo"
    /\ ValidPacerInput
    /\ frameStep > 1
    /\ frameStep < Infinity
    /\ endingFrames > 0
    /\ Len(frames) # chartFrames + endingFrames

\* C9: on valid input no regular frame follows a final frame; every final
\* frame has isFinal set and carries the whole display series, the label and
\* price of its last point and the shares and dividends of the last monthly
\* state; and the final frames handed to createVideo number endingFrames.
C9_FreezeFrames ==
    ValidPacerInput =>
        LET N == Len(chartData)
            last == monthlyData[Len(monthlyData)]
        IN  /\ \A a, b \in 1..Len(frames) : (a < b /\ frames[a].isFinal) => frames[b].isFinal
            /\ \A a \in FinalFrames :
                  /\ Len(frames[a].labels) = N
                  /\ Len(frames[a].values) = N
                  /\ Len(frames[a].totalInput) = N
                  /\ \A k \in 1..N :
                        /\ frames[a].labels[k] = chartData[k].date
                        /\ frames[a].values[k] = chartData[k].portfolioValue
                        /\ frames[a].totalInput[k] = chartData[k].totalInvested
                  /\ frames[a].formattedDate = chartData[N].formattedDate
                  /\ frames[a].stockPrice = chartData[N].stockPrice
                  /\ frames[a].shares = last.shares
                  /\ frames[a].totalDividends = last.totalDividends
            /\ pc = "createVideo" =>
                  /\ Cardinality(FinalFrames) = endingFrames
                  /\ \A a \in 1..Len(frames) : a > Len(frames) - endingFrames <=> frames[a].isFinal

\* 90 final frames after regular frames that skipped the last points of a
\* series whose shares grew
C9_Witness ==
    /\ pc = "createVideo"
    /\ ValidPacerInput
    /\ endingFrames = 90
    /\ Cardinality(FinalFrames) = 90
    /\ Len(frames) > 90
    /\ frames[Len(frames)].shares > frames[1].shares

\* C10: when the display series is empty or a duration is negative, no frame
\* is emitted and the run does not go on to createVideo.
C10_InvalidPacerInputRejected ==
    (PacerStarted /\ ~ValidPacerInput) =>
        (frames = <<>> /\ pc \in {"frames", "ending"})

\* ------------------------------------------------------------------ the interpolator's contract
\* the monthly states dated at or before the date a label stands for
MonthsAtOrBefore(label) ==
    {j \in 1..Len(monthlyData) : NewDate(monthlyData[j].formattedDate) <= NewDate(label)}

SetMax(S) == CHOOSE x \in S : \A y \in S : y <= x

\* C11: a display point dated on a monthly boundary has the portfolioValue of
\* that month's state, whatever its price and its label format.
C11_BoundaryValueExact ==
    \A k \in 1..Len(chartData), j \in 1..Len(monthlyData) :
        NewDate(chartData[k].formattedDate) = NewDate(monthlyData[j].formattedDate)
            => chartData[k].portfolioValue = monthlyData[j].portfolioValue

\* C12: a display point has the totalInvested of the latest monthly state
\* dated at or before it, so the value is constant between two boundaries.
C12_ContributedOfLatestMonth ==
    \A k \in 1..Len(chartData) :
        LET S == MonthsAtOrBefore(chartData[k].formattedDate)
        IN  S # {} => chartData[k].totalInvested = monthlyData[SetMax(S)].totalInvested

\* a daily series with a point inside the second month that carries that
\* month's total, larger than the first month's and apart from its own value
C12_Witness ==
    /\ config.chartPeriod = "daily"
    /\ Len(monthlyData) >= 3
    /\ \E k \in 1..Len(chartData) :
          /\ chartData[k].date.m = 1
          /\ chartData[k].date.d > 1
          /\ chartData[k].totalInvested = monthlyData[2].totalInvested
          /\ chartData[k].totalInvested > monthlyData[1].totalInvested
          /\ chartData[k].totalInvested < monthlyData[3].totalInvested
          /\ chartData[k].totalInvested # chartData[k].portfolioValue

\* C13: a daily or weekly point dated before the first monthly state makes
\* the interpolation fail, so that no display point is emitted for it.
C13_FailsBeforeFirstBoundary ==
    \A k \in 1..Len(chartData) :
        NewDate(chartData[k].formattedDate) >= NewDate(monthlyData[1].formattedDate)

\* the regular frames, in the order they were pushed
GrowthFrames == {a \in 1..Len(frames) : ~frames[a].isFinal}

\* C14: the regular frame of a display point shows the shares and dividends of
\* the latest monthly state dated at or before the point, never a later
\* month's, and the shares shown never decrease from frame to frame.
C14_FrameShowsLatestMonth ==
    /\ \A a \in GrowthFrames :
          LET S == MonthsAtOrBefore(chartData[Len(frames[a].labels)].formattedDate)
          IN  /\ S # {}
              /\ frames[a].shares = monthlyData[SetMax(S)].shares
              /\ frames[a].totalDividends = monthlyData[SetMax(S)].totalDividends
    /\ \A a, b \in GrowthFrames : a < b => frames[a].shares <= frames[b].shares

\* C15: a call of calculateInvestmentGrowth with the arguments of an earlier
\* call returns the series the earlier call returned, entry for entry: the
\* running totals start afresh in every call.
C15_SameResultOnEveryCall ==
    (calls >= 1 /\ pc \in {"map", "chart"}) =>
        /\ monthlyData = SubSeq(firstResult, 1, index)
        /\ pc = "chart" => monthlyData = firstResult

\* a second call that has returned three states with shares and dividends
C15_Witness ==
    /\ calls = 1
    /\ pc = "chart"
    /\ Len(monthlyData) = 3
    /\ initialBalance > 0
    /\ monthlyInvestment > 0
    /\ monthlyData[3].cashBalance > 0
    /\ monthlyData[3].totalDividends > 0

\* C16: a quote without a usable close fails the fetch as a whole. When the
\* monthly response has one, no price series is returned, the simulator and
\* the frame loops never run, and generateVideo ends with the fetch's error;
\* when the daily or weekly response has one, no display series is built and
\* no frame is generated. The simulator only ever runs on the complete monthly
\* series, and a failed generateVideo takes no further step (no retry).
C16_MonthlyIncomplete == \E k \in 1..Len(quotes) : quotes[k].close = NoClose
C16_PeriodIncomplete ==
    /\ config.chartPeriod # "monthly"
    /\ \E k \in 1..Len(periodQuotes) : periodQuotes[k].close = NoClose
C16_FetchFailsAsAWhole ==
    /\ [](/\ C16_MonthlyIncomplete =>
               /\ monthlyStockData = <<>>
               /\ monthlyData = <<>>
               /\ chartData = <<>>
               /\ frames = <<>>
               /\ pc \in {"initialize", "fetchMonthly", "failed"}
               /\ pc = "failed" => error = "Error: Missing stock price data"
          /\ C16_PeriodIncomplete =>
               /\ chartData = <<>>
               /\ frames = <<>>
               /\ pc \in {"initialize", "fetchMonthly", "calculate", "map", "chart", "failed"}
               /\ (pc = "failed" /\ quotes # <<>>) => error = "Error: Missing stock price data"
          /\ (pc \in {"calculate", "map", "chart"} \/ monthlyData # <<>>) =>
               /\ Len(monthlyStockData) = Len(quotes)
               /\ \A k \in 1..Len(quotes) : monthlyStockData[k].value = quotes[k].close)
    /\ [][pc # "failed"]_vars

\* the monthly fetch has failed on a response whose first quote has a close
C16_Witness ==
    /\ pc = "failed"
    /\ error = "Error: Missing stock price data"
    /\ Len(quotes) >= 2
    /\ quotes[1].close # NoClose
    /\ C16_MonthlyIncomplete
    /\ monthlyStockData = <<>>

\* the daily or weekly fetch has failed after the simulator ran
C16_WitnessPeriod ==
    /\ pc = "failed"
    /\ error = "Error: Missing stock price data"
    /\ C16_PeriodIncomplete
    /\ monthlyData # <<>>
    /\ chartData = <<>>

C18_FramesOfLoop ==
    (PacerStarted /\ Len(chartData) >= 1) =>
        LET N == Len(chartData)
            G == Cardinality(GrowthFrames)
        IN  /\ frameStep >= 1
            /\ GrowthFrames = 1..G
            /\ \A a \in 1..G :
                  LET idx == (a - 1) * frameStep
                  IN  /\ idx < N
                      /\ Len(frames[a].labels) = idx + 1
                      /\ Len(frames[a].values) = idx + 1
                      /\ Len(frames[a].totalInput) = idx + 1
                      /\ \A k \in 1..(idx + 1) :
                            /\ frames[a].labels[k] = chartData[k].date
                            /\ frames[a].values[k] = chartData[k].portfolioValue
                            /\ frames[a].totalInput[k] = chartData[k].totalInvested
                      /\ frames[a].formattedDate = chartData[idx + 1].formattedDate
                      /\ frames[a].stockPrice = chartData[idx + 1].stockPrice
                      /\ frames[a].isFinal = FALSE
            /\ pc = "frames" => (G = Len(frames) /\ i = G * frameStep)
            /\ pc # "frames" => (G >= 1 /\ G * frameStep >= N)

C18_GrowthFrames ==
    /\ []C18_FramesOfLoop
    /\ (pc = "frames" /\ Len(chartData) >= 1) ~> (pc = "ending")

\* five points stepped through two at a time: prefixes of one, three and five points
C18_Witness ==
    /\ pc = "ending"
    /\ Len(chartData) = 5
    /\ frameStep = 2
    /\ Len(frames) = 3
    /\ Len(frames[2].labels) = 3
    /\ Len(frames[3].values) = 5
    /\ frames[2].values[1] # frames[2].values[3]

\* C19: for a daily or weekly display series, interpolateChartData emits one
\* display point per observation of the response, in the response's order,
\* and the monthly state it selects for an observation is the one of greatest
\* index among those dated at or before the observation, never one dated
\* after it.
C19_NoLookAhead ==
    (PacerStarted /\ config.chartPeriod # "monthly") =>
        LET periodStockData == fetchStockData(periodQuotes, dividends, config.chartPeriod)
        IN  /\ Len(chartData) = Len(periodQuotes)
            /\ \A k \in 1..Len(chartData) :
                  LET p == periodStockData[k]
                      selected == MatchingMonthlyIndex(monthlyData, p)
                  IN  /\ chartData[k].formattedDate = p.formattedDate
                      /\ chartData[k].stockPrice = periodQuotes[k].close
                      /\ chartData[k] = InterpolatePoint(p, monthlyData[selected])
                      /\ NewDate(monthlyData[selected].formattedDate) <= NewDate(p.formattedDate)
                      /\ selected = SetMax(MonthsAtOrBefore(p.formattedDate))

C21_IntraMonthRevalued ==
    (PacerStarted /\ config.chartPeriod # "monthly") =>
        /\ Len(chartData) = Len(periodQuotes)
        /\ \A k \in 1..Len(chartData) :
              LET S == MonthsAtOrBefore(chartData[k].formattedDate)
              IN  (S # {} /\ chartData[k].date # monthlyData[SetMax(S)].date) =>
                      LET m == monthlyData[SetMax(S)]
                      IN  /\ chartData[k].portfolioValue =
                                 m.shares * periodQuotes[k].close + m.cashBalance
                          /\ chartData[k].totalInvested = m.totalInvested
                          /\ DOMAIN chartData[k] =
                                 {"date", "formattedDate", "portfolioValue",
                                  "totalInvested", "stockPrice"}

\* a point inside the second month, priced apart from the month's quote,
\* revalued over shares and cash left by that month
C21_Witness ==
    /\ PacerStarted
    /\ config.chartPeriod = "daily"
    /\ Len(monthlyData) >= 2
    /\ \E k \in 1..Len(chartData) :
          /\ chartData[k].formattedDate.m = 1
          /\ chartData[k].formattedDate.d > 1
          /\ monthlyData[2].cashBalance > 0
          /\ monthlyData[2].shares > 0
          /\ chartData[k].stockPrice # monthlyData[2].stockPrice
          /\ chartData[k].portfolioValue # monthlyData[2].portfolioValue
          /\ chartData[k].portfolioValue =
                 monthlyData[2].shares * chartData[k].stockPrice + monthlyData[2].cashBalance

\* C22: the duration that createVideo divides by the number of frames is the
\* configured chartDuration + endingDuration (durations of the configuration
\* are in hundredths of a second, createVideo's in seconds); 23 seconds under
\* the default configuration.
C22_EncodesConfiguredDuration ==
    encoder # "idle" =>
        /\ duration * 100 = config.chartDuration + config.endingDuration
        /\ config = DefaultConfig => duration = 23

\* what the purchases up to the k-th monthly state have cost: the shares
\* added by each state at the price of its period (the seed purchase is made
\* at the first period's price)
RECURSIVE PurchaseCost(_)
PurchaseCost(k) ==
    IF k = 0 THEN 0
    ELSE PurchaseCost(k - 1)
         + (monthlyData[k].shares - (IF k = 1 THEN 0 ELSE monthlyData[k - 1].shares))
           * monthlyData[k].stockPrice

C24_CleanupStates ==
    /\ (pc = "cleanup" /\ encoder = "error") =>
          (frameFiles = Len(frames) /\ error = "ffmpeg error" /\ tempDir)
    /\ (pc = "failed" /\ encoder = "error") => (~tempDir /\ error = "ffmpeg error")
    /\ pc = "done" => (~tempDir /\ encoder = "end" /\ error = "none")
    /\ (pc = "failed" /\ encoder = "idle") => (tempDir /\ error # "none")
    /\ (~tempDir /\ pc # "initialize") => (encoder \in {"end", "error"} /\ pc \in {"done", "failed"})
    /\ pc = "failed" => encoder \in {"idle", "error"}

C24_TempDirRemoved ==
    /\ []C24_CleanupStates
    /\ (pc = "createVideo") ~> (~tempDir /\ pc \in {"done", "failed"})
    /\ [][pc = "failed" => FALSE]_vars

\* ffmpeg has failed on frames that were written, and the caller has the
\* error with the directory removed
C24_Witness ==
    /\ pc = "failed"
    /\ encoder = "error"
    /\ error = "ffmpeg error"
    /\ ~tempDir
    /\ Len(frames) > 0

\* a frame loop has thrown before createVideo and the directory is left behind
C24_WitnessBefore ==
    /\ pc = "failed"
    /\ encoder = "idle"
    /\ error = "TypeError"
    /\ monthlyData # <<>>
    /\ tempDir

NextSim == Initialize \/ FetchMonthly \/ CalcStart \/ CalcPeriod

SpecSim == InitSim /\ [][NextSim]_vars

NextTwice == Initialize \/ FetchMonthly \/ CalcStart \/ CalcPeriod \/ CallAgain

SpecTwice == InitSim /\ [][NextTwice]_vars

NextInterpolate ==
    Initialize \/ FetchMonthly \/ CalcStart \/ CalcPeriod \/ InterpolateCall

SpecInterpolate == Init /\ [][NextInterpolate]_vars

Next ==
    \/ Initialize \/ FetchMonthly \/ CalcStart \/ CalcPeriod
    \/ BuildChartData \/ GrowthFrame \/ GrowthDone \/ EndingFrame \/ EndingDone
    \/ CreateVideo \/ EncoderEnd \/ EncoderError \/ Cleanup

Spec == Init /\ [][Next]_vars

\* generateVideo runs on: the loop of line 380 takes its next iteration or exit
SpecFrames == Init /\ [][Next]_vars /\ WF_vars(GrowthFrame) /\ WF_vars(GrowthDone)

\* generateVideo runs on from the call of createVideo: the call is made,
\* ffmpeg reports its end or an error, and the finally block runs
SpecVideo ==
    /\ Init
    /\ [][Next]_vars
    /\ WF_vars(CreateVideo)
    /\ WF_vars(EncoderEnd \/ EncoderError)
    /\ WF_vars(Cleanup)

====
